---------------------------- MODULE Spec2Model ----------------------------
(***************************************************************************)
(* Model of desktop_ui/src-tauri/src/main.rs: the desktop shell's entry    *)
(* point.  main() probes the backend once with a blocking TCP connect      *)
(* (ensure_backend), prints a warning when the probe fails, and then       *)
(* starts the Tauri host.                                                  *)
(*                                                                         *)
(* Text.  A string is a sequence of pieces.  Text that comes from the      *)
(* environment (an address) is one piece per character, so that it can be  *)
(* split and parsed; the literal text of a format string of the source is  *)
(* one piece.  Formatting is concatenation of pieces.                      *)
(*                                                                         *)
(* Environment.  The process environment (env), the resolver's answers     *)
(* (dns), the state of the peers (net) and the state of standard error     *)
(* (stderrOpen) are fixed for a run and chosen in Init.  IPv6 literals    *)
(* are not among the inputs and the address parser below covers the IPv4   *)
(* and host:port forms only.                                               *)
(***************************************************************************)
EXTENDS Integers, Sequences, FiniteSets, TLC

VARIABLES
    env,            \* the value of KARI_BACKEND in the process environment
    dns,            \* resolver: host name -> sequence of IPv4 addresses
    net,            \* peer state of each socket address of interest
    pc,             \* position of the main thread
    addr,           \* ensure_backend's local `addr`
    result,         \* the value ensure_backend returned
    stderrOpen,     \* writes to standard error succeed (FALSE: e.g. a pipe
                    \* whose reader is gone; fixed for a run)
    stderr,         \* lines written to standard error, in order
    panic,          \* the message main panicked with, or "none"
    connectCalls,   \* number of calls of TcpStream::connect made so far
    hostStarted,    \* tauri::Builder::run has been entered
    hostConfig,     \* what the host was built and run with
    hostResult      \* what tauri::Builder::run returned

vars == <<env, dns, net, pc, addr, result, stderrOpen, stderr, panic,
          connectCalls, hostStarted, hostConfig, hostResult>>

-----------------------------------------------------------------------------
(* Text helpers *)

Digits == {"0", "1", "2", "3", "4", "5", "6", "7", "8", "9"}

DigitSeq == <<"0", "1", "2", "3", "4", "5", "6", "7", "8", "9">>

DigitVal(c) == (CHOOSE i \in 1..Len(DigitSeq) : DigitSeq[i] = c) - 1

IsDigits(s) == Len(s) > 0 /\ \A i \in 1..Len(s) : s[i] \in Digits

RECURSIVE DecVal(_)
DecVal(s) ==
    IF s = <<>> THEN 0
    ELSE DecVal(SubSeq(s, 1, Len(s) - 1)) * 10 + DigitVal(s[Len(s)])

\* str::rsplit_once(c): split at the last occurrence of c.
rsplit_once(s, c) ==
    LET idx == {i \in 1..Len(s) : s[i] = c}
    IN  IF idx = {} THEN [found |-> FALSE, left |-> <<>>, right |-> <<>>]
        ELSE LET k == CHOOSE i \in idx : \A j \in idx : j <= i
             IN  [found |-> TRUE,
                  left  |-> SubSeq(s, 1, k - 1),
                  right |-> SubSeq(s, k + 1, Len(s))]

\* str::split(c): the pieces between the occurrences of c.
RECURSIVE split(_, _)
split(s, c) ==
    LET idx == {i \in 1..Len(s) : s[i] = c}
    IN  IF idx = {} THEN <<s>>
        ELSE LET k == CHOOSE i \in idx : \A j \in idx : i <= j
             IN  <<SubSeq(s, 1, k - 1)>> \o split(SubSeq(s, k + 1, Len(s)), c)

\* t occurs in s as a contiguous run of pieces.
Contains(s, t) ==
    \E i \in 1..(Len(s) + 1) :
        /\ i + Len(t) - 1 <= Len(s)
        /\ SubSeq(s, i, i + Len(t) - 1) = t

-----------------------------------------------------------------------------
(* The inputs of a run *)

Ip127 == <<"1", "2", "7", ".", "0", ".", "0", ".", "1">>

IpB == <<"1", "0", ".", "0", ".", "0", ".", "2">>

HostH == <<"h">>

\* Values KARI_BACKEND may hold when it is set to valid Unicode.
EnvValues ==
    { Ip127 \o <<":", "8", "0", "0", "0">>,          \* 127.0.0.1:8000
      IpB \o <<":", "8", "0">>,                       \* 10.0.0.2:80
      <<"h", ":", "8", "0">>,                         \* h:80
      <<"h", ":", "+", "8", "0">>,                    \* h:+80
      <<":", "8", "0">>,                              \* :80
      <<>>,                                           \* the empty string
      <<"h">>,                                        \* no port
      IpB,                                            \* 10.0.0.2, no port
      <<"h", ":">>,                                   \* empty port
      <<"h", ":", "x">>,                              \* port not a number
      <<"h", ":", "-", "1">>,                         \* negative port
      <<"h", ":", "6", "5", "5", "3", "6">>,          \* port out of u16
      <<"h", ":", "8", "0", ":">> }                   \* trailing colon

\* The environment: the variable absent, set to Unicode text, or set to bytes
\* that are not valid Unicode.
Environments ==
    {[kind |-> "unset"], [kind |-> "notunicode"]}
        \cup {[kind |-> "unicode", val |-> v] : v \in EnvValues}

\* Names the resolver is asked about, and what it may answer (<<>> is a
\* failed lookup).
Hostnames == {HostH, <<>>}

DnsAnswers == {<<>>, <<Ip127>>, <<IpB>>, <<IpB, Ip127>>}

\* Socket addresses whose peer state varies; every other address refuses.
SockAddrs ==
    { [ip |-> Ip127, port |-> 8000],
      [ip |-> IpB, port |-> 80],
      [ip |-> Ip127, port |-> 80] }

\* listening: connect succeeds; refused: connect fails; silent: the peer
\* never answers and the connect, which has no timeout, does not return.
PeerStates == {"listening", "refused", "silent"}


-----------------------------------------------------------------------------
(* The standard library calls ensure_backend makes *)

\* Variant: the fallback names port 8080.
DefaultAddr_8080 == Ip127 \o <<":", "8", "0", "8", "0">>

\* The fallback address of ensure_backend.
DefaultAddr == Ip127 \o <<":", "8", "0", "0", "0">>

\* std::env::var(name): Ok(text) when the variable is set to valid Unicode,
\* Err(NotPresent) when it is absent, Err(NotUnicode) otherwise.
env_var(e) ==
    IF e.kind = "unicode" THEN [ok |-> TRUE, val |-> e.val]
    ELSE [ok |-> FALSE,
          err |-> IF e.kind = "unset" THEN "NotPresent" ELSE "NotUnicode"]

\* Variant: the fallback is taken for an absent variable only, and a value
\* that is not Unicode reads as the empty text.
unwrap_or_else_absent_only(r, d) ==
    IF r.ok THEN r.val
    ELSE IF r.err = "NotPresent" THEN d
    ELSE <<>>

\* Result::unwrap_or_else(|_| d): the closure ignores the error.
unwrap_or_else(r, d) == IF r.ok THEN r.val ELSE d

\* u16::from_str: an optional '+', then one or more decimal digits, and the
\* value must fit 16 bits.
parse_u16(s) ==
    LET body == IF Len(s) > 0 /\ s[1] = "+" THEN SubSeq(s, 2, Len(s)) ELSE s
    IN  IF IsDigits(body) /\ DecVal(body) <= 65535
        THEN [ok |-> TRUE, val |-> DecVal(body)]
        ELSE [ok |-> FALSE]

\* Ipv4Addr::from_str: four decimal octets 0..255 separated by dots, no
\* leading zero.
parse_ipv4(s) ==
    LET parts == split(s, ".")
    IN  /\ Len(parts) = 4
        /\ \A i \in 1..4 :
              /\ IsDigits(parts[i])
              /\ Len(parts[i]) <= 3
              /\ (Len(parts[i]) > 1 => parts[i][1] # "0")
              /\ DecVal(parts[i]) <= 255

\* SocketAddrV4::from_str: <ipv4>:<port>, the port in digits only.
parse_socket_addr(s) ==
    LET sp == rsplit_once(s, ":")
    IN  IF /\ sp.found
           /\ parse_ipv4(sp.left)
           /\ IsDigits(sp.right)
           /\ DecVal(sp.right) <= 65535
        THEN [ok |-> TRUE,
              val |-> [ip |-> sp.left, port |-> DecVal(sp.right)]]
        ELSE [ok |-> FALSE]

\* The resolver (getaddrinfo): a numeric host is itself, a name is looked up.
lookup_host(host) ==
    IF parse_ipv4(host) THEN <<host>>
    ELSE IF host \in DOMAIN dns THEN dns[host]
    ELSE <<>>

\* <str as ToSocketAddrs>::to_socket_addrs: a socket address literal, or
\* host:port split at the last colon, the port a u16 and the host resolved.
to_socket_addrs(s) ==
    LET lit == parse_socket_addr(s)
        sp == rsplit_once(s, ":")
    IN  IF lit.ok THEN [ok |-> TRUE, addrs |-> <<lit.val>>]
        ELSE IF ~sp.found THEN [ok |-> FALSE, err |-> "invalid socket address"]
        ELSE IF ~parse_u16(sp.right).ok
             THEN [ok |-> FALSE, err |-> "invalid port value"]
        ELSE LET ips == lookup_host(sp.left)
             IN  IF ips = <<>>
                 THEN [ok |-> FALSE, err |-> "failed to lookup address information"]
                 ELSE [ok |-> TRUE,
                       addrs |-> [i \in 1..Len(ips) |->
                                    [ip |-> ips[i],
                                     port |-> parse_u16(sp.right).val]]]

\* The state of the peer at a socket address.
peer(sa) == IF sa \in DOMAIN net THEN net[sa] ELSE "refused"

\* std::net::each_addr: the addresses are tried in order; the first success
\* is returned, otherwise the last error.  A silent peer blocks the call.
RECURSIVE each_addr(_)
each_addr(addrs) ==
    IF addrs = <<>> THEN "Err"
    ELSE IF peer(Head(addrs)) = "listening" THEN "Ok"
    ELSE IF peer(Head(addrs)) = "silent" THEN "Blocked"
    ELSE each_addr(Tail(addrs))

\* TcpStream::connect(&addr): Ok, Err, or Blocked when the call never returns.
TcpStream_connect(s) ==
    LET r == to_socket_addrs(s)
    IN  IF r.ok THEN each_addr(r.addrs) ELSE "Err"

\* Variant: the message names the fallback address, not the one attempted.
format_err_default(a) == <<"Backend at ">> \o DefaultAddr \o <<" not reachable">>

\* format!("Backend at {addr} not reachable")
format_err(a) == <<"Backend at ">> \o a \o <<" not reachable">>

\* .map(|_| ()).map_err(|_| format!(..)): the stream and the io::Error are
\* both dropped.
map_result(outcome, a) ==
    IF outcome = "Ok" THEN [tag |-> "Ok"]
    ELSE [tag |-> "Err", msg |-> format_err(a)]

\* eprintln!("Warning: {e}")
format_warning(e) == <<"Warning: ">> \o e

\* What tauri::Builder::default().run(tauri::generate_context!()) is given.
TauriConfig == [builder |-> "default", context |-> "generate_context"]

\* The message of .expect(..) on the host's result.
ExpectMsg == "error while running Tauri application"

\* The message of the panic of eprintln! when its write fails.
PrintFailedMsg == "failed printing to stderr"

\* The line a panic of .expect(msg) on Err(e) writes.
format_panic(msg, e) == <<"thread 'main' panicked: ", msg, ": ", e>>

NoResult == [tag |-> "none"]

-----------------------------------------------------------------------------
(* The program *)

Init ==
    /\ env \in Environments
    /\ dns \in [Hostnames -> DnsAnswers]
    /\ net \in [SockAddrs -> PeerStates]
    /\ pc = "main"
    /\ addr = <<>>
    /\ result = NoResult
    /\ stderrOpen \in BOOLEAN
    /\ stderr = <<>>
    /\ panic = "none"
    /\ connectCalls = 0
    /\ hostStarted = FALSE
    /\ hostConfig = [builder |-> "none", context |-> "none"]
    /\ hostResult = "none"

\* main calls ensure_backend, which reads KARI_BACKEND or takes the default.
ensure_backend_addr ==
    /\ pc = "main"
    /\ addr' = unwrap_or_else(env_var(env), DefaultAddr)
    /\ pc' = "connect"
    /\ UNCHANGED <<env, dns, net, stderrOpen, result, stderr, panic, connectCalls,
                   hostStarted, hostConfig, hostResult>>

\* ensure_backend enters TcpStream::connect(&addr).
connect_call ==
    /\ pc = "connect"
    /\ connectCalls' = connectCalls + 1
    /\ pc' = "pending"
    /\ UNCHANGED <<env, dns, net, stderrOpen, addr, result, stderr, panic,
                   hostStarted, hostConfig, hostResult>>

\* Variant: a connect with a timeout, which fails where the peer is silent.
connect_return_timeout ==
    /\ pc = "pending"
    /\ result' = map_result(IF TcpStream_connect(addr) = "Ok" THEN "Ok" ELSE "Err",
                            addr)
    /\ pc' = "returned"
    /\ UNCHANGED <<env, dns, net, stderrOpen, addr, stderr, panic, connectCalls,
                   hostStarted, hostConfig, hostResult>>

\* The connect returns and ensure_backend returns its mapped result.  A
\* blocked connect does not return.
connect_return ==
    /\ pc = "pending"
    /\ TcpStream_connect(addr) # "Blocked"
    /\ result' = map_result(TcpStream_connect(addr), addr)
    /\ pc' = "returned"
    /\ UNCHANGED <<env, dns, net, stderrOpen, addr, stderr, panic, connectCalls,
                   hostStarted, hostConfig, hostResult>>

\* Variant: the warning is printed whatever the probe returned.
main_warn_always ==
    /\ pc = "returned"
    /\ stderr' = IF stderrOpen
                 THEN Append(stderr, format_warning(format_err(addr)))
                 ELSE stderr
    /\ panic' = IF stderrOpen THEN panic ELSE PrintFailedMsg
    /\ pc' = IF stderrOpen THEN "build" ELSE "panicked"
    /\ UNCHANGED <<env, dns, net, stderrOpen, addr, result, connectCalls,
                   hostStarted, hostConfig, hostResult>>

\* Variant: a failed probe is tried once more.
main_warn_retry ==
    /\ pc = "returned"
    /\ stderr' = IF result.tag = "Err" /\ stderrOpen
                 THEN Append(stderr, format_warning(result.msg))
                 ELSE stderr
    /\ panic' = IF result.tag = "Err" /\ ~stderrOpen THEN PrintFailedMsg ELSE panic
    /\ pc' = IF result.tag = "Err" /\ ~stderrOpen THEN "panicked"
             ELSE IF result.tag = "Err" /\ connectCalls < 2 THEN "connect"
             ELSE "build"
    /\ UNCHANGED <<env, dns, net, stderrOpen, addr, result, connectCalls,
                   hostStarted, hostConfig, hostResult>>

\* if let Err(e) = ensure_backend() { eprintln!("Warning: {e}"); }
\* eprintln! panics when the write to standard error fails; the panic ends
\* main before the host is built.
main_warn ==
    /\ pc = "returned"
    /\ stderr' = IF result.tag = "Err" /\ stderrOpen
                 THEN Append(stderr, format_warning(result.msg))
                 ELSE stderr
    /\ panic' = IF result.tag = "Err" /\ ~stderrOpen THEN PrintFailedMsg ELSE panic
    /\ pc' = IF result.tag = "Err" /\ ~stderrOpen THEN "panicked" ELSE "build"
    /\ UNCHANGED <<env, dns, net, stderrOpen, addr, result, connectCalls,
                   hostStarted, hostConfig, hostResult>>

\* tauri::Builder::default().run(tauri::generate_context!()) is entered.
tauri_run ==
    /\ pc = "build"
    /\ hostStarted' = TRUE
    /\ hostConfig' = TauriConfig
    /\ pc' = "running"
    /\ UNCHANGED <<env, dns, net, stderrOpen, addr, result, stderr, panic,
                   connectCalls, hostResult>>

\* run returns and .expect(..) unwraps it: Ok ends main, Err panics with the
\* message of the expect.  The panic's report goes to standard error when it
\* can be written.
tauri_expect ==
    /\ pc = "running"
    /\ \E r \in {"Ok", "Err"} :
          /\ hostResult' = r
          /\ pc' = IF r = "Err" THEN "panicked" ELSE "exited"
          /\ panic' = IF r = "Err" THEN ExpectMsg ELSE panic
          /\ stderr' = IF r = "Err" /\ stderrOpen
                       THEN Append(stderr, format_panic(ExpectMsg, "tauri::Error"))
                       ELSE stderr
    /\ UNCHANGED <<env, dns, net, stderrOpen, addr, result, connectCalls,
                   hostStarted, hostConfig>>

Next ==
    \/ ensure_backend_addr
    \/ connect_call
    \/ connect_return
    \/ main_warn
    \/ tauri_run
    \/ tauri_expect

Spec == Init /\ [][Next]_vars

-----------------------------------------------------------------------------
(* Vocabulary of the properties *)

\* The text 127.0.0.1:8000, written out.
LiteralDefault ==
    <<"1", "2", "7", ".", "0", ".", "0", ".", "1", ":", "8", "0", "0", "0">>

\* The indices of the warning lines of standard error.
WarningLines == {i \in 1..Len(stderr) : Head(stderr[i]) = "Warning: "}

\* ensure_backend has returned.
Probed == pc \in {"returned", "build", "running", "exited", "panicked"}

\* main is past the `if let`.
PastWarn == pc \in {"build", "running", "exited", "panicked"}

\* The address a run is to probe, read off the environment.
Attempted == IF env.kind = "unicode" THEN env.val ELSE LiteralDefault

\* A port text a host:port value may carry: digits, optionally after a plus
\* sign, denoting a number of 16 bits.
UsablePort(p) ==
    LET d == IF p # <<>> /\ Head(p) = "+" THEN Tail(p) ELSE p
    IN  /\ d # <<>>
        /\ \A i \in 1..Len(d) : d[i] \in Digits
        /\ DecVal(d) < 65536

\* A value that is not host:port: it has no colon, or what follows its last
\* colon is not a usable port.  The empty string is one.
Malformed(v) ==
    \/ \A i \in 1..Len(v) : v[i] # ":"
    \/ \E k \in 1..Len(v) :
          /\ v[k] = ":"
          /\ \A j \in (k + 1)..Len(v) : v[j] # ":"
          /\ ~UsablePort(SubSeq(v, k + 1, Len(v)))

-----------------------------------------------------------------------------
(* Properties *)

\* C1: when the probe fails, main prints exactly one warning and then starts
\* the host; the failure neither skips the host start nor ends the process.
C1_FailedProbeStillStartsHost ==
    result.tag = "Err" =>
        /\ Probed
        /\ pc = "returned" => (stderr = <<>> /\ ENABLED main_warn)
        /\ pc = "build" => (~hostStarted /\ ENABLED tauri_run)
        /\ PastWarn => Cardinality(WarningLines) = 1
        /\ pc \in {"running", "exited", "panicked"} => hostStarted

\* C2: when the connect succeeds, ensure_backend returns Ok and main prints
\* no warning before it starts the host.
C2_ReachableNoWarning ==
    (Probed /\ TcpStream_connect(addr) = "Ok") =>
        /\ result = [tag |-> "Ok"]
        /\ WarningLines = {}
        /\ (pc \in {"returned", "build", "running"} => stderr = <<>>)
        /\ (pc \in {"running", "exited", "panicked"} => hostStarted)

C2_Witness ==
    /\ TcpStream_connect(addr) = "Ok"
    /\ result.tag = "Ok"
    /\ hostStarted
    /\ stderrOpen
    /\ stderr = <<>>

\* C3: with KARI_BACKEND unset, the address probed, and named in any error,
\* is exactly 127.0.0.1:8000.
C3_UnsetUsesDefault ==
    (env.kind = "unset" /\ pc # "main") =>
        /\ addr = LiteralDefault
        /\ (result.tag = "Err" =>
               result.msg = <<"Backend at ">> \o LiteralDefault
                                \o <<" not reachable">>)
        /\ (Probed => (result.tag = "Ok"
                          <=> net[[ip |-> Ip127, port |-> 8000]] = "listening"))

C3_Witness ==
    /\ env.kind = "unset"
    /\ result.tag = "Err"
    /\ PastWarn

\* C4: an error of ensure_backend reads 'Backend at <addr> not reachable'
\* with <addr> the address attempted, and a warning printed carries it.
C4_ErrorNamesAttemptedAddr ==
    result.tag = "Err" =>
        /\ result.msg = <<"Backend at ">> \o Attempted \o <<" not reachable">>
        /\ Contains(result.msg, Attempted)
        /\ addr = Attempted
        /\ \A i \in WarningLines :
              /\ stderr[i] = <<"Warning: ">> \o result.msg
              /\ Contains(stderr[i], Attempted)

C4_Witness ==
    /\ result.tag = "Err"
    /\ env.kind = "unicode"
    /\ env.val = <<"h", ":", "8", "0">>
    /\ pc = "build"
    /\ WarningLines = {1}

\* C5: a KARI_BACKEND that is set but malformed makes the connect fail, and
\* the run goes on as for an unreachable backend: one warning, not fatal, and
\* the host is started.
C5_MalformedIsUnreachable ==
    (env.kind = "unicode" /\ Malformed(env.val)) =>
        /\ pc # "main" => TcpStream_connect(addr) = "Err"
        /\ Probed => result.tag = "Err"
        /\ pc = "returned" => ENABLED main_warn
        /\ pc = "build" => (~hostStarted /\ ENABLED tauri_run)
        /\ PastWarn => Cardinality(WarningLines) = 1
        /\ pc \in {"running", "exited", "panicked"} => hostStarted

\* C6: the connect is attempted exactly once, is never retried, and has
\* returned before the host is started; the host never starts while the
\* probe is pending.
C6_OneProbeBeforeHost ==
    /\ connectCalls <= 1
    /\ (connectCalls = 0 <=> pc \in {"main", "connect"})
    /\ (pc = "pending" => (~hostStarted /\ result = NoResult))
    /\ (hostStarted => (connectCalls = 1 /\ result # NoResult))

C6_Witness ==
    /\ pc = "exited"
    /\ result.tag = "Err"
    /\ connectCalls = 1

\* C7: the host is built and started with the same configuration whether the
\* probe succeeded or failed; up to the host's start the two runs differ in
\* the warning on standard error only.
C7_ProbeNotPropagated ==
    (PastWarn /\ pc # "build") =>
        /\ hostStarted
        /\ hostConfig = [builder |-> "default", context |-> "generate_context"]
        /\ pc = "running" =>
              stderr = IF result.tag = "Err"
                       THEN << <<"Warning: ">> \o result.msg >>
                       ELSE <<>>

\* C8: the address attempted is the value of KARI_BACKEND when it can be
\* read, and 127.0.0.1:8000 whenever reading it fails; a value that is set
\* but not Unicode is probed as the default address and does not fail as a
\* malformed value would.
C8_UnreadableFallsBackToDefault ==
    pc # "main" =>
        /\ (env.kind = "unicode" => addr = env.val)
        /\ (env.kind # "unicode" => addr = LiteralDefault)
        /\ (env.kind = "notunicode" /\ Probed) =>
              (result.tag = "Ok"
                  <=> net[[ip |-> Ip127, port |-> 8000]] = "listening")

C8_Witness ==
    /\ env.kind = "notunicode"
    /\ Probed
    /\ result.tag = "Ok"

\* C9: main panics, with 'error while running Tauri application', exactly
\* when the host's run returns an error, whatever the probe returned; there
\* is no other fatal path.
C9_PanicIffHostError ==
    /\ (pc = "panicked" <=> hostResult = "Err")
    /\ (panic # "none" <=> hostResult = "Err")
    /\ (pc = "panicked" =>
           (hostStarted /\ panic = "error while running Tauri application"))

\* C10: the host is started only in a run whose blocking connect returned;
\* in a run where the connect never returns, main stays in the probe, the
\* host is never started and no warning is printed.
C10_HostOnlyIfConnectReturns ==
    /\ [](hostStarted => (TcpStream_connect(addr) # "Blocked" /\ Probed))
    /\ []((pc = "pending" /\ TcpStream_connect(addr) = "Blocked")
             => (~hostStarted /\ stderr = <<>> /\ result = NoResult))
    /\ [][(pc = "pending" /\ TcpStream_connect(addr) = "Blocked")
             => (pc' = "pending" /\ ~hostStarted' /\ stderr' = <<>>)]_vars

C10_Witness ==
    /\ pc = "pending"
    /\ TcpStream_connect(addr) = "Blocked"
    /\ net[[ip |-> Ip127, port |-> 8000]] = "silent"
    /\ env.kind = "unset"

=============================================================================
